---- MODULE Spec2Model ----
(***************************************************************************)
(* Model of app.py: a Flask endpoint POST /send-otp guarded by an          *)
(* in-memory sliding-window rate limiter keyed by client address, with a   *)
(* phone normaliser/validator and a Twilio delivery call.                  *)
(*                                                                         *)
(* Strings of the program are sequences of one-character strings.  Time    *)
(* (time.time()) is the integer variable now, advanced by Tick.            *)
(***************************************************************************)
EXTENDS Integers, Sequences, FiniteSets, TLC

\* ---------------------------------------------------------------- bounds
\* Latest clock value the model explores.
MaxTime == 120
\* Number of requests received over one behaviour of Spec.
MaxRequests == 5
\* Number of requests received over one behaviour of SpecConcurrent.
MaxConcurrentRequests == 4
\* Longest exhaustively enumerated phone string of SpecRequest.
MaxLen == 3
\* Longest run of digits in the generated long phone strings.
MaxDigits == 17

\* ------------------------------------------------------ program constants
RATE_LIMIT_WINDOW == 60
MAX_PER_WINDOW == 3
\* Digit-count limits of the length heuristic of send_otp.
MinDigits == 8
MaxPhoneDigits == 15

\* ------------------------------------------------------------- characters
\* Characters for which str.isdigit() is true (ASCII representatives).
DigitChars == {"0", "7"}

IsDigit(ch) == ch \in DigitChars

\* Whitespace characters removed by str.strip().
IsSpace(ch) == ch = " "

\* ------------------------------------------------------- phone normaliser
\* A mutated normaliser that keeps the digits only.
normalize_phone_digits_only(number) == SelectSeq(number, IsDigit)

\* normalize_phone: ''.join(ch for ch in (number or "") if ch.isdigit() or ch == '+')
normalize_phone(number) ==
  SelectSeq(number, LAMBDA ch : IsDigit(ch) \/ ch = "+")

\* digits = ''.join(ch for ch in phone if ch.isdigit())
digits_of(phone) == SelectSeq(phone, IsDigit)

\* The value handed to normalize_phone for a request body:
\* request.get_json(silent=True) or {} ; data.get("phone", "").
\*   nojson : body absent or not parseable JSON     -> {} -> ""
\*   nokey  : JSON object without a "phone" member  -> ""
\*   null   : "phone": null -> None, and (None or "") = ""
\*   str    : "phone": <string>
\*   nonstr : "phone": a non-zero number (not iterable)
phone_field(body) ==
  IF body.kind = "str" THEN body.phone ELSE <<>>

\* A mutated validation whose lower limit is off by one.
validate_body_off_by_one(body) ==
  IF body.kind = "nonstr" THEN [sig |-> "unhandled", phone |-> <<>>]
  ELSE LET phone == normalize_phone(phone_field(body))
           digits == digits_of(phone)
       IN IF phone = <<>> THEN [sig |-> "missing", phone |-> phone]
          ELSE IF Len(digits) <= MinDigits \/ Len(digits) > MaxPhoneDigits
               THEN [sig |-> "invalid", phone |-> phone]
               ELSE [sig |-> "ok", phone |-> phone]

\* A mutated validation without the test for an empty phone.
validate_body_no_empty_test(body) ==
  IF body.kind = "nonstr" THEN [sig |-> "unhandled", phone |-> <<>>]
  ELSE LET phone == normalize_phone(phone_field(body))
           digits == digits_of(phone)
       IN IF Len(digits) < MinDigits \/ Len(digits) > MaxPhoneDigits
          THEN [sig |-> "invalid", phone |-> phone]
          ELSE [sig |-> "ok", phone |-> phone]

\* Outcome of lines 167-175 for a body: the signal and the normalised phone.
validate_body(body) ==
  IF body.kind = "nonstr" THEN [sig |-> "unhandled", phone |-> <<>>]
  ELSE LET phone == normalize_phone(phone_field(body))
           digits == digits_of(phone)
       IN IF phone = <<>> THEN [sig |-> "missing", phone |-> phone]
          ELSE IF Len(digits) < MinDigits \/ Len(digits) > MaxPhoneDigits
               THEN [sig |-> "invalid", phone |-> phone]
               ELSE [sig |-> "ok", phone |-> phone]

\* ------------------------------------------------ client-address resolving
UNKNOWN == <<"u", "n", "k", "n", "o", "w", "n">>

HasComma(s) == \E i \in 1..Len(s) : s[i] = ","

\* s.split(",")[0]
RECURSIVE first_entry(_)
first_entry(s) ==
  IF s = <<>> \/ Head(s) = "," THEN <<>>
  ELSE <<Head(s)>> \o first_entry(Tail(s))

RECURSIVE lstrip(_)
lstrip(s) == IF s # <<>> /\ IsSpace(Head(s)) THEN lstrip(Tail(s)) ELSE s

RECURSIVE rstrip(_)
rstrip(s) ==
  IF s # <<>> /\ IsSpace(s[Len(s)]) THEN rstrip(SubSeq(s, 1, Len(s) - 1)) ELSE s

strip(s) == rstrip(lstrip(s))

\* Lines 158-161.  A header or peer address is [present, val]; an absent one
\* is Python's None.
resolve_client_ip(xff, remote) ==
  LET got == IF xff.present THEN xff ELSE remote
      client_ip == IF got.present /\ got.val # <<>> THEN got.val ELSE UNKNOWN
  IN IF HasComma(client_ip) THEN strip(first_entry(client_ip)) ELSE client_ip

\* ----------------------------------------------------------- rate limiter
\* A mutated comprehension that also keeps a timestamp exactly one window old.
FreshInclusive(lst, t_now) == SelectSeq(lst, LAMBDA t : t_now - t <= RATE_LIMIT_WINDOW)

\* The comprehension of clean_old: [t for t in lst if now - t < RATE_LIMIT_WINDOW]
Fresh(lst, t_now) == SelectSeq(lst, LAMBDA t : t_now - t < RATE_LIMIT_WINDOW)

\* A mutated clean_old that creates the entry but filters nothing.
clean_old_without_filter(table, ip, t_now) ==
  LET cur == IF ip \in DOMAIN table THEN table[ip] ELSE <<>>
  IN [k \in DOMAIN table \cup {ip} |-> IF k = ip THEN cur ELSE table[k]]

\* A mutated clean_old that filters the list of every address.
clean_old_every_key(table, ip, t_now) ==
  LET cur(k) == IF k \in DOMAIN table THEN table[k] ELSE <<>>
  IN [k \in DOMAIN table \cup {ip} |-> Fresh(cur(k), t_now)]

\* A mutated clean_old that also evicts the other addresses left without a
\* fresh timestamp.
clean_old_evicting(table, ip, t_now) ==
  LET cur == IF ip \in DOMAIN table THEN table[ip] ELSE <<>>
      live == {k \in DOMAIN table : Fresh(table[k], t_now) # <<>>}
  IN [k \in live \cup {ip} |-> IF k = ip THEN Fresh(cur, t_now) ELSE table[k]]

\* _recent_requests.setdefault(ip, []) followed by the filtering assignment.
clean_old(table, ip, t_now) ==
  LET cur == IF ip \in DOMAIN table THEN table[ip] ELSE <<>>
  IN [k \in DOMAIN table \cup {ip} |-> IF k = ip THEN Fresh(cur, t_now) ELSE table[k]]

\* A mutated test that lets one request too many through.
over_limit_off_by_one(table, ip) == Len(table[ip]) > MAX_PER_WINDOW

\* The test of too_many_requests on the cleaned table.
over_limit(table, ip) == Len(table[ip]) >= MAX_PER_WINDOW

\* ------------------------------------------------------------------ state
VARIABLES
  now,              \* the clock read by time.time()
  env,              \* which of TWILIO_SID, TWILIO_TOKEN, TWILIO_NUMBER are set
  recent_requests,  \* _recent_requests: ip -> [timestamps]
  twilio_client,    \* whether the lazy _twilio_client has been constructed
  pc,               \* position of each request handler in send_otp
  req,              \* the X-Forwarded-For header and the peer address of the request
  body,             \* the request body
  client_ip,        \* local client_ip of send_otp
  phone,            \* local phone of send_otp (normalised)
  resp,             \* the response returned by the handler
  calls,            \* messages.create invocations made for the current request
  printed,          \* exception texts printed to the server log by the request
  nreq,             \* requests received so far
  admitted,         \* history: ip -> every timestamp record_request appended for it
  recorded,         \* history: timestamps record_request appended for the request
  count_seen,       \* history: admissions of the request's ip inside the window
                    \* when its rate check ran (-1 before the check)
  tmp,              \* the list built by the comprehension of clean_old, not yet stored
  overlap           \* history: a request arrived while another was being handled

vars == <<now, env, recent_requests, twilio_client, pc, body, client_ip, phone,
          resp, calls, printed, nreq, admitted, count_seen, recorded, req, tmp, overlap>>

\* ----------------------------------------------------------------- inputs
Handlers == {1, 2}

\* The handler that serves every request when requests are handled one at a time.
SerialHandlers == {1}

\* Amounts by which the clock advances between two steps.
TickSteps == {59, 60}

Str(val) == [present |-> TRUE, val |-> val]
None == [present |-> FALSE, val |-> <<>>]

IpA == <<"a">>
IpB == <<"b">>

XffValues ==
  { None, Str(<<>>), Str(IpA), Str(<<"a", ",", " ", "b">>),
    Str(<<" ", "b", " ", ",", "a">>) }

RemoteAddrs == { Str(IpA), Str(IpB) }

Body(kind, ph) == [kind |-> kind, phone |-> ph]

\* The body of a handler that has served no request yet.
NoBody == Body("", <<>>)

\* k copies of the digit "7".
RECURSIVE Sevens(_)
Sevens(k) == IF k = 0 THEN <<>> ELSE <<"7">> \o Sevens(k - 1)

\* "+91 123-456-7890" with 7 and 0 for its digits.
SpecExample ==
  <<"+", "7", "7", " ", "7", "7", "7", "-", "7", "7", "7", "-", "7", "0", "0", "0">>

\* Request bodies offered to the rate-limited endpoint.
Bodies ==
  { Body("nojson", <<>>), Body("nonstr", <<>>),
    Body("str", <<" ", " ">>), Body("str", Sevens(7)),
    Body("str", Sevens(8)), Body("str", SpecExample) }

\* Characters of the exhaustively enumerated phone strings.
Alphabet == {"7", "+", " ", "a"}

StringsUpTo(n) == UNION {[1..k -> Alphabet] : k \in 0..n}

\* Phone strings with up to MaxDigits digits between a prefix and a suffix.
LongPhones ==
  { pre \o Sevens(k) \o suf :
      pre \in {<<>>, <<"+">>, <<" ">>},
      k \in 0..MaxDigits,
      suf \in {<<>>, <<"+">>, <<"-", "0">>} }

\* Request bodies offered to a single request (SpecRequest).
WideBodies ==
  { Body(k, <<>>) : k \in {"nojson", "nokey", "null", "nonstr"} }
    \cup { Body("str", p) : p \in StringsUpTo(MaxLen) \cup LongPhones \cup {SpecExample} }

\* Settings of the three TWILIO_* environment variables (TRUE: set and non-empty).
AllEnvs == [sid : BOOLEAN, token : BOOLEAN, number : BOOLEAN]

\* The settings explored together with the rate limiter over time.
SomeEnvs == { e \in AllEnvs : e.sid = e.token /\ e.token = e.number }

\* Texts of the exceptions messages.create may raise, and the sids it returns.
ExceptionTexts == {"HTTP 401 AC123: authenticate", "timed out"}
Sids == {"SM1"}

\* ------------------------------------------------------------- responses
Lit(s) == [lit |-> s, chars |-> <<>>]
Chars(c) == [lit |-> "", chars |-> c]

NoResp == [status |-> 0, key |-> "", text |-> <<>>]

Resp429 ==
  [status |-> 429, key |-> "error", text |-> <<Lit("Rate limit exceeded. Try again later.")>>]

Resp400Missing ==
  [status |-> 400, key |-> "error", text |-> <<Lit("Phone number required.")>>]

Resp400Invalid ==
  [status |-> 400, key |-> "error", text |-> <<Lit("Invalid phone number format.")>>]

\* Flask's answer to an exception that escapes the view function.
RespUnhandled ==
  [status |-> 500, key |-> "", text |-> <<Lit("Internal Server Error")>>]

\* message_body = f"Your verification code is: {otp}"
message_body == <<Lit("Your verification code is: "), Lit("FIXED_OTP")>>

RespDev(ph) ==
  [status |-> 200, key |-> "message",
   text |-> <<Lit("(DEV) Would send to "), Chars(ph), Lit(": ")>> \o message_body]

RespSent(ph, sid) ==
  [status |-> 200, key |-> "message",
   text |-> <<Lit("OTP sent to "), Chars(ph), Lit(". SID: "), Lit(sid)>>]

\* A mutated failure response that carries the exception text.
RespFailedWithDetail(e) ==
  [status |-> 500, key |-> "error",
   text |-> <<Lit("Failed to send SMS: "), Lit(e)>>]

RespFailed(e) ==
  [status |-> 500, key |-> "error",
   text |-> <<Lit("Failed to send SMS. Check server logs and Twilio configuration.")>>]

\* A mutated credentials test that forgets the sender number.
configured_without_number(e) == e.sid /\ e.token

\* TWILIO_ACCOUNT_SID and TWILIO_AUTH_TOKEN and TWILIO_FROM_NUMBER
configured(e) == e.sid /\ e.token /\ e.number

\* ------------------------------------------------------------------- Init
InitWith(envs) ==
  /\ now = 0
  /\ env \in envs
  /\ recent_requests = <<>>
  /\ twilio_client = FALSE
  /\ pc = [h \in Handlers |-> "idle"]
  /\ req = [h \in Handlers |-> [xff |-> None, remote |-> None]]
  /\ body = [h \in Handlers |-> NoBody]
  /\ client_ip = [h \in Handlers |-> <<>>]
  /\ phone = [h \in Handlers |-> <<>>]
  /\ resp = [h \in Handlers |-> NoResp]
  /\ calls = [h \in Handlers |-> 0]
  /\ printed = [h \in Handlers |-> {}]
  /\ nreq = 0
  /\ admitted = <<>>
  /\ recorded = [h \in Handlers |-> 0]
  /\ count_seen = [h \in Handlers |-> -1]
  /\ tmp = [h \in Handlers |-> <<>>]
  /\ overlap = FALSE

\* ---------------------------------------------------------------- history
\* Number of timestamps ever recorded for ip that are younger than the window at t.
History(ip) == IF ip \in DOMAIN admitted THEN admitted[ip] ELSE <<>>

AdmittedInWindow(ip, t) ==
  Cardinality({i \in 1..Len(History(ip)) : t - History(ip)[i] < 60})

\* ---------------------------------------------------------------- actions
\* A request arrives at send_otp; lines 158-161 resolve its client_ip.
BeginWith(h, xffs, remotes, bodies) ==
  /\ pc[h] \in {"idle", "done"}
  /\ nreq < MaxRequests
  /\ \E xff \in xffs, remote \in remotes, b \in bodies :
       /\ req' = [req EXCEPT ![h] = [xff |-> xff, remote |-> remote]]
       /\ body' = [body EXCEPT ![h] = b]
       /\ client_ip' = [client_ip EXCEPT ![h] = resolve_client_ip(xff, remote)]
  /\ pc' = [pc EXCEPT ![h] = "rate_check"]
  /\ phone' = [phone EXCEPT ![h] = <<>>]
  /\ resp' = [resp EXCEPT ![h] = NoResp]
  /\ calls' = [calls EXCEPT ![h] = 0]
  /\ printed' = [printed EXCEPT ![h] = {}]
  /\ recorded' = [recorded EXCEPT ![h] = 0]
  /\ count_seen' = [count_seen EXCEPT ![h] = -1]
  /\ nreq' = nreq + 1
  /\ overlap' = (overlap \/ \E g \in Handlers : pc[g] \notin {"idle", "done"})
  /\ UNCHANGED <<now, env, recent_requests, twilio_client, admitted, tmp>>

\* A request arrives while no other request is being handled.
Begin(h) ==
  /\ \A g \in Handlers : pc[g] \in {"idle", "done"}
  /\ BeginWith(h, {None, Str(<<" ", "b", " ", ",", "a">>)}, {Str(IpA)}, Bodies)

\* A mutated rate check that validates the body before it consults the limiter.
RateCheckAfterValidation(h) ==
  /\ pc[h] = "rate_check"
  /\ LET table == clean_old(recent_requests, client_ip[h], now)
         v == validate_body(body[h])
     IN IF v.sig \in {"missing", "invalid"}
        THEN /\ recent_requests' = recent_requests
             /\ resp' = [resp EXCEPT ![h] =
                           IF v.sig = "missing" THEN Resp400Missing ELSE Resp400Invalid]
             /\ pc' = [pc EXCEPT ![h] = "done"]
        ELSE /\ recent_requests' = table
             /\ IF over_limit(table, client_ip[h])
                THEN /\ resp' = [resp EXCEPT ![h] = Resp429]
                     /\ pc' = [pc EXCEPT ![h] = "done"]
                ELSE /\ resp' = resp
                     /\ pc' = [pc EXCEPT ![h] = "validate"]
  /\ count_seen' = [count_seen EXCEPT ![h] = AdmittedInWindow(client_ip[h], now)]
  /\ UNCHANGED <<now, env, twilio_client, body, client_ip, phone, calls, printed,
                 nreq, admitted, recorded, req, tmp, overlap>>

\* Lines 164-165: too_many_requests(client_ip), 429 when it is true.
RateCheck(h) ==
  /\ pc[h] = "rate_check"
  /\ LET table == clean_old(recent_requests, client_ip[h], now)
     IN /\ recent_requests' = table
        /\ IF over_limit(table, client_ip[h])
           THEN /\ resp' = [resp EXCEPT ![h] = Resp429]
                /\ pc' = [pc EXCEPT ![h] = "done"]
           ELSE /\ resp' = resp
                /\ pc' = [pc EXCEPT ![h] = "validate"]
  /\ count_seen' = [count_seen EXCEPT ![h] = AdmittedInWindow(client_ip[h], now)]
  /\ UNCHANGED <<now, env, twilio_client, body, client_ip, phone, calls, printed,
                 nreq, admitted, recorded, req, tmp, overlap>>

\* A mutated validation step that records the request before it validates it.
ValidateAfterRecord(h) ==
  /\ pc[h] = "validate"
  /\ LET v == validate_body(body[h])
     IN /\ phone' = [phone EXCEPT ![h] = v.phone]
        /\ resp' = [resp EXCEPT ![h] =
                      CASE v.sig = "unhandled" -> RespUnhandled
                        [] v.sig = "missing" -> Resp400Missing
                        [] v.sig = "invalid" -> Resp400Invalid
                        [] OTHER -> NoResp]
        /\ pc' = [pc EXCEPT ![h] = IF v.sig = "ok" THEN "compose" ELSE "done"]
  /\ recent_requests' =
       [recent_requests EXCEPT ![client_ip[h]] = Append(Fresh(@, now), now)]
  /\ admitted' = [k \in DOMAIN admitted \cup {client_ip[h]} |->
                    IF k = client_ip[h] THEN Append(History(k), now) ELSE admitted[k]]
  /\ recorded' = [recorded EXCEPT ![h] = @ + 1]
  /\ UNCHANGED <<now, env, twilio_client, body, client_ip, calls, printed, nreq,
                 count_seen, req, tmp, overlap>>

\* Lines 167-175: parse the body, normalise and validate the phone.
Validate(h) ==
  /\ pc[h] = "validate"
  /\ LET v == validate_body(body[h])
     IN /\ phone' = [phone EXCEPT ![h] = v.phone]
        /\ resp' = [resp EXCEPT ![h] =
                      CASE v.sig = "unhandled" -> RespUnhandled
                        [] v.sig = "missing" -> Resp400Missing
                        [] v.sig = "invalid" -> Resp400Invalid
                        [] OTHER -> NoResp]
        /\ pc' = [pc EXCEPT ![h] = IF v.sig = "ok" THEN "record" ELSE "done"]
  /\ UNCHANGED <<now, env, recent_requests, twilio_client, body, client_ip, calls,
                 printed, nreq, admitted, count_seen, recorded, req, tmp, overlap>>

\* Line 178, first statement of record_request: clean_old(ip).
RecordClean(h) ==
  /\ pc[h] = "record"
  /\ recent_requests' = clean_old(recent_requests, client_ip[h], now)
  /\ pc' = [pc EXCEPT ![h] = "append"]
  /\ UNCHANGED <<now, env, twilio_client, body, client_ip, phone, resp, calls,
                 printed, nreq, admitted, count_seen, recorded, req, tmp, overlap>>

\* A mutated append that leaves the list as it was.
not_appended(lst, t) == lst

\* The list after _recent_requests[ip].append(time.time()).
appended(lst, t) == Append(lst, t)

\* Second statement of record_request: _recent_requests[ip].append(time.time()).
RecordAppend(h) ==
  /\ pc[h] = "append"
  /\ recent_requests' =
       [recent_requests EXCEPT ![client_ip[h]] = appended(@, now)]
  /\ admitted' = [k \in DOMAIN admitted \cup {client_ip[h]} |->
                    IF k = client_ip[h] THEN Append(History(k), now) ELSE admitted[k]]
  /\ recorded' = [recorded EXCEPT ![h] = @ + 1]
  /\ pc' = [pc EXCEPT ![h] = "compose"]
  /\ UNCHANGED <<now, env, twilio_client, body, client_ip, phone, resp, calls,
                 printed, nreq, count_seen, req, tmp, overlap>>

\* Lines 181-187: compose the message; without credentials answer (DEV).
Compose(h) ==
  /\ pc[h] = "compose"
  /\ IF ~configured(env)
     THEN /\ resp' = [resp EXCEPT ![h] = RespDev(phone[h])]
          /\ pc' = [pc EXCEPT ![h] = "done"]
     ELSE /\ resp' = resp
          /\ pc' = [pc EXCEPT ![h] = "deliver"]
  /\ UNCHANGED <<now, env, recent_requests, twilio_client, body, client_ip, phone,
                 calls, printed, nreq, admitted, count_seen, recorded, req, tmp, overlap>>

\* A mutated delivery that calls messages.create a second time after a failure.
DeliverWithRetry(h) ==
  /\ pc[h] = "deliver"
  /\ twilio_client' = TRUE
  /\ \/ \E sid \in Sids :
          /\ calls' = [calls EXCEPT ![h] = @ + 1]
          /\ resp' = [resp EXCEPT ![h] = RespSent(phone[h], sid)]
          /\ printed' = printed
     \/ \E e \in ExceptionTexts :
          /\ calls' = [calls EXCEPT ![h] = @ + 2]
          /\ resp' = [resp EXCEPT ![h] = RespFailed(e)]
          /\ printed' = [printed EXCEPT ![h] = @ \cup {e}]
  /\ pc' = [pc EXCEPT ![h] = "done"]
  /\ UNCHANGED <<now, env, recent_requests, body, client_ip, phone, nreq, admitted,
                 count_seen, recorded, req, tmp, overlap>>

\* Lines 189-198: the delivery call, which returns a sid or raises.
Deliver(h) ==
  /\ pc[h] = "deliver"
  /\ twilio_client' = TRUE
  /\ calls' = [calls EXCEPT ![h] = @ + 1]
  /\ \/ \E sid \in Sids :
          /\ resp' = [resp EXCEPT ![h] = RespSent(phone[h], sid)]
          /\ printed' = printed
     \/ \E e \in ExceptionTexts :
          /\ resp' = [resp EXCEPT ![h] = RespFailed(e)]
          /\ printed' = [printed EXCEPT ![h] = @ \cup {e}]
  /\ pc' = [pc EXCEPT ![h] = "done"]
  /\ UNCHANGED <<now, env, recent_requests, body, client_ip, phone, nreq, admitted,
                 count_seen, recorded, req, tmp, overlap>>

\* time.time() moves on between two steps.
Tick ==
  /\ \E d \in TickSteps :
       /\ now + d <= MaxTime
       /\ now' = now + d
  /\ UNCHANGED <<env, recent_requests, twilio_client, pc, body, client_ip, phone,
                 resp, calls, printed, nreq, admitted, count_seen, recorded, req, tmp, overlap>>

Next ==
  \/ \E h \in SerialHandlers :
       \/ Begin(h)
       \/ RateCheck(h)
       \/ Validate(h)
       \/ RecordClean(h)
       \/ RecordAppend(h)
       \/ Compose(h)
       \/ Deliver(h)
  \/ Tick

Init == InitWith(SomeEnvs)

Spec == Init /\ [][Next]_vars

\* One request with any of the enumerated headers, bodies and environments.
BeginRequest(h) == nreq = 0 /\ BeginWith(h, XffValues, RemoteAddrs, WideBodies)

InitRequest == InitWith(AllEnvs)

NextRequest ==
  \E h \in SerialHandlers :
    \/ BeginRequest(h)
    \/ RateCheck(h)
    \/ Validate(h)
    \/ RecordClean(h)
    \/ RecordAppend(h)
    \/ Compose(h)
    \/ Deliver(h)

SpecRequest == InitRequest /\ [][NextRequest]_vars

\* ------------------------------------------------- interleaved handlers
\* When requests are handled by threads that share _recent_requests, the
\* statements of clean_old and too_many_requests of one handler interleave
\* with those of another.  clean_old is then three steps: setdefault and the
\* comprehension that builds the filtered list, the assignment that stores it,
\* and (in too_many_requests) the len() test that reads the table again.

\* _recent_requests.setdefault(ip, [])
setdefault(table, ip) ==
  [k \in DOMAIN table \cup {ip} |-> IF k \in DOMAIN table THEN table[k] ELSE <<>>]

\* clean_old up to the end of its comprehension: the new list is built from
\* the list stored now and is not stored yet.
CleanRead(h, from, to) ==
  /\ pc[h] = from
  /\ recent_requests' = setdefault(recent_requests, client_ip[h])
  /\ tmp' = [tmp EXCEPT ![h] = Fresh(recent_requests'[client_ip[h]], now)]
  /\ pc' = [pc EXCEPT ![h] = to]
  /\ UNCHANGED <<now, env, twilio_client, req, body, client_ip, phone, resp, calls,
                 printed, nreq, admitted, count_seen, recorded, overlap>>

\* The assignment of clean_old: _recent_requests[ip] = <the list built>.
CleanStore(h, from, to) ==
  /\ pc[h] = from
  /\ recent_requests' = [recent_requests EXCEPT ![client_ip[h]] = tmp[h]]
  /\ tmp' = [tmp EXCEPT ![h] = <<>>]
  /\ pc' = [pc EXCEPT ![h] = to]
  /\ UNCHANGED <<now, env, twilio_client, req, body, client_ip, phone, resp, calls,
                 printed, nreq, admitted, count_seen, recorded, overlap>>

\* Line 44 (clean_old called by too_many_requests), first part.
CheckRead(h) == CleanRead(h, "rate_check", "check_store")

\* Line 44, the assignment.
CheckStore(h) == CleanStore(h, "check_store", "check_test")

\* Line 45 and lines 164-165: the len() test on the table as it is now.
CheckTest(h) ==
  /\ pc[h] = "check_test"
  /\ IF over_limit(recent_requests, client_ip[h])
     THEN /\ resp' = [resp EXCEPT ![h] = Resp429]
          /\ pc' = [pc EXCEPT ![h] = "done"]
     ELSE /\ resp' = resp
          /\ pc' = [pc EXCEPT ![h] = "validate"]
  /\ count_seen' = [count_seen EXCEPT ![h] = AdmittedInWindow(client_ip[h], now)]
  /\ UNCHANGED <<now, env, recent_requests, twilio_client, req, body, client_ip,
                 phone, calls, printed, nreq, admitted, recorded, tmp, overlap>>

\* Line 48 (clean_old called by record_request), first part.
RecordRead(h) == CleanRead(h, "record", "record_store")

\* Line 48, the assignment.
RecordStore(h) == CleanStore(h, "record_store", "append")

\* A request arrives, possibly while another one is being handled.
BeginConcurrent(h) ==
  /\ nreq < MaxConcurrentRequests
  /\ BeginWith(h, {None}, {Str(IpA)}, {Body("str", Sevens(7)), Body("str", Sevens(8))})

\* No credentials: an admitted request ends at line 187.
InitConcurrent ==
  InitWith({[sid |-> FALSE, token |-> FALSE, number |-> FALSE]})

NextConcurrent ==
  \/ \E h \in Handlers :
       \/ BeginConcurrent(h)
       \/ CheckRead(h)
       \/ CheckStore(h)
       \/ CheckTest(h)
       \/ Validate(h)
       \/ RecordRead(h)
       \/ RecordStore(h)
       \/ RecordAppend(h)
       \/ Compose(h)
  \/ Tick

SpecConcurrent == InitConcurrent /\ [][NextConcurrent]_vars

\* ----------------------------------------------------------------- claims
\* Number of digit characters of a string, counted position by position.
NumDigits(str) == Cardinality({i \in 1..Len(str) : str[i] \in {"0", "7"}})

\* A body whose phone member is a string holding 8 to 15 digits.
ValidBody(b) == b.kind = "str" /\ NumDigits(b.phone) >= 8 /\ NumDigits(b.phone) <= 15

\* The request of handler h got through the rate check and the validation.
Accepted(h) ==
  \/ pc[h] \in {"record", "append", "compose", "deliver"}
  \/ pc[h] = "done" /\ resp[h].status = 200
  \/ pc[h] = "done" /\ resp[h].status = 500 /\ resp[h].key = "error"

\* C1: under serialized handling, a request whose address already has 3
\* admissions recorded within the last 60 seconds when it is checked is
\* answered 429, and a request checked when fewer than 3 admissions lie in the
\* window is not: if its phone is valid it is recorded and answered 200 or 500.
C1_FourthRejectedThenResumes ==
  \A h \in Handlers :
    count_seen[h] >= 0 =>
      /\ count_seen[h] >= 3 => pc[h] = "done" /\ resp[h].status = 429
      /\ count_seen[h] < 3 =>
           /\ resp[h].status # 429
           /\ pc[h] = "done" /\ ValidBody(body[h]) =>
                recorded[h] = 1 /\ resp[h].status \in {200, 500}

\* A fourth request is rejected after exactly three admissions in the window.
C1_Witness ==
  \E h \in Handlers :
    /\ pc[h] = "done" /\ resp[h].status = 429
    /\ count_seen[h] = 3
    /\ Len(History(client_ip[h])) = 3

\* C2: a request that passed the rate check and the validation has appended
\* exactly one timestamp, the newest of its address's stored list, by the time
\* the delivery branch is chosen, whether it then ends simulated (200),
\* delivered (200) or failed (500).
C2_QuotaConsumedBeforeDelivery ==
  \A h \in Handlers :
    ( \/ pc[h] \in {"compose", "deliver"}
      \/ pc[h] = "done" /\ resp[h].status = 200
      \/ pc[h] = "done" /\ resp[h].status = 500 /\ resp[h].key = "error" ) =>
      /\ recorded[h] = 1
      /\ client_ip[h] \in DOMAIN recent_requests
      /\ recent_requests[client_ip[h]] # <<>>
      /\ LET lst == recent_requests[client_ip[h]]
             hist == History(client_ip[h])
         IN lst[Len(lst)] = hist[Len(hist)]

\* A request whose delivery failed has consumed quota.
C2_Witness ==
  \E h \in Handlers :
    /\ pc[h] = "done" /\ resp[h].status = 500 /\ resp[h].key = "error"
    /\ recorded[h] = 1
    /\ AdmittedInWindow(client_ip[h], now) = 3

\* C3: a request whose address is over the limit when it is checked is
\* answered 429 and handled no further (no phone is extracted, nothing is
\* recorded), whatever its body; a 400 goes only to a request whose address
\* was not over the limit at its check.
C3_RateCheckPrecedesValidation ==
  \A h \in Handlers :
    /\ count_seen[h] >= 3 =>
         /\ pc[h] = "done" /\ resp[h].status = 429
         /\ phone[h] = <<>> /\ recorded[h] = 0 /\ calls[h] = 0
    /\ resp[h].status = 400 => count_seen[h] \in 0..2

\* An over-limit request with an invalid phone is answered 429, not 400.
C3_Witness ==
  \E h \in Handlers :
    /\ resp[h].status = 429
    /\ body[h].kind = "str" /\ NumDigits(body[h].phone) = 7

\* The stored list of ip, empty when ip has no entry.
Stored(ip) == IF ip \in DOMAIN recent_requests THEN recent_requests[ip] ELSE <<>>

\* The handler of h has run lines 167-175 on its body.
Validated(h) == pc[h] \notin {"idle", "rate_check", "validate"} /\ count_seen[h] < 3

\* What C4 says normalize keeps of raw from position i on: the digits, and a
\* plus sign at position 1 only.
RECURSIVE KeptFrom(_, _)
KeptFrom(raw, i) ==
  IF i > Len(raw) THEN <<>>
  ELSE (IF raw[i] \in {"0", "7"} \/ (raw[i] = "+" /\ i = 1) THEN <<raw[i]>> ELSE <<>>)
         \o KeptFrom(raw, i + 1)

\* C4: the normalised phone of a request is its phone string reduced to its
\* digits and a plus sign in leading position, in order; every other
\* character, a plus sign elsewhere included, is stripped; absent input gives
\* the empty string.
C4_KeepsDigitsAndLeadingPlus ==
  \A h \in Handlers :
    Validated(h) /\ body[h].kind # "nonstr" =>
      phone[h] = KeptFrom(IF body[h].kind = "str" THEN body[h].phone ELSE <<>>, 1)

\* C5: once the phone of a request has been normalised to a non-empty string,
\* the request is accepted iff that string holds 8 to 15 digits, and is
\* otherwise answered 400 with the invalid-format message.
C5_DigitCountDecides ==
  \A h \in Handlers :
    Validated(h) /\ phone[h] # <<>> =>
      /\ Accepted(h) <=> NumDigits(phone[h]) \in 8..15
      /\ ~Accepted(h) =>
           /\ pc[h] = "done" /\ resp[h].status = 400 /\ resp[h].key = "error"
           /\ resp[h].text = <<Lit("Invalid phone number format.")>>

\* A phone of exactly 15 digits and a plus sign is accepted.
C5_Witness ==
  \E h \in Handlers :
    /\ pc[h] = "done" /\ Accepted(h)
    /\ NumDigits(phone[h]) = 15 /\ Len(phone[h]) = 16

\* The phone member of body b is absent, null, empty or made of spaces only.
BlankBody(b) ==
  \/ b.kind \in {"nojson", "nokey", "null"}
  \/ b.kind = "str" /\ \A i \in 1..Len(b.phone) : b.phone[i] = " "

\* C6: a request that passed the rate check and whose phone is absent, empty
\* or whitespace-only, or whose body is not parseable JSON, is answered 400
\* with the message "Phone number required.".
C6_BlankPhoneIsMissing ==
  \A h \in Handlers :
    Validated(h) /\ BlankBody(body[h]) =>
      /\ pc[h] = "done" /\ resp[h].status = 400 /\ resp[h].key = "error"
      /\ resp[h].text = <<Lit("Phone number required.")>>

\* A whitespace-only phone is answered with the missing-number message.
C6_Witness ==
  \E h \in Handlers :
    /\ body[h].kind = "str" /\ Len(body[h].phone) = 2 /\ BlankBody(body[h])
    /\ pc[h] = "done" /\ resp[h].status = 400

\* C7: when any of the three credentials is unset, the delivery call is never
\* reached or invoked, and every request that was admitted with a valid phone
\* ends with status 200 and a message that starts with "(DEV)".
C7_NoCredentialsSimulates ==
  (~env.sid \/ ~env.token \/ ~env.number) =>
    /\ ~twilio_client
    /\ \A h \in Handlers :
         /\ pc[h] # "deliver" /\ calls[h] = 0
         /\ pc[h] = "done" /\ recorded[h] = 1 =>
              /\ resp[h].status = 200 /\ resp[h].key = "message"
              /\ resp[h].text[1] = Lit("(DEV) Would send to ")
              /\ resp[h].text[2] = Chars(phone[h])

\* With only the sender number unset a valid request ends simulated.
C7_Witness ==
  \E h \in Handlers :
    /\ env.sid /\ env.token /\ ~env.number
    /\ pc[h] = "done" /\ recorded[h] = 1 /\ resp[h].status = 200

\* C8: when the delivery call raised, the response is status 500 with one
\* fixed error text, the same for every exception, none of whose parts is the
\* exception text; the exception text is in the server log.
C8_FailureDetailSuppressed ==
  \A h \in Handlers :
    /\ printed[h] # {} =>
         /\ env.sid /\ env.token /\ env.number
         /\ calls[h] = 1 /\ pc[h] = "done"
         /\ resp[h] = [status |-> 500, key |-> "error",
                       text |-> <<Lit("Failed to send SMS. Check server logs and Twilio configuration.")>>]
         /\ \A e \in ExceptionTexts, i \in 1..Len(resp[h].text) : resp[h].text[i].lit # e
    /\ pc[h] = "done" /\ resp[h].status = 500 /\ resp[h].key = "error" =>
         printed[h] # {}

\* A delivery that raised "timed out" is answered 500.
C8_Witness ==
  \E h \in Handlers :
    /\ printed[h] = {"timed out"}
    /\ pc[h] = "done" /\ resp[h].status = 500

\* C9: on every step that evaluates the rate limiter for an address (the
\* over-limit check and the pruning of the record step), the list stored for
\* the address afterwards holds only timestamps less than 60 seconds older
\* than the time of the evaluation, and the check answers over-limit iff at
\* least 3 of the timestamps stored before it are that young.
C9_OnlyFreshAfterEvaluation ==
  [][\A h \in Handlers :
       pc[h] \in {"rate_check", "record"} /\ pc'[h] # pc[h] =>
         /\ client_ip[h] \in DOMAIN recent_requests'
         /\ \A i \in 1..Len(recent_requests'[client_ip[h]]) :
              now - recent_requests'[client_ip[h]][i] < 60
         /\ pc[h] = "rate_check" =>
              ( pc'[h] = "done" <=>
                  Cardinality({i \in 1..Len(Stored(client_ip[h])) :
                                 now - Stored(client_ip[h])[i] < 60}) >= 3 )]_vars

\* A check has pruned a stale timestamp and kept a fresh one.
C9_Witness ==
  \E h \in Handlers :
    /\ pc[h] = "validate"
    /\ Stored(client_ip[h]) # <<>>
    /\ \A i \in 1..Len(Stored(client_ip[h])) : now - Stored(client_ip[h])[i] < 60
    /\ Len(History(client_ip[h])) > Len(Stored(client_ip[h]))

\* C10 as stated: a check discards exactly the timestamps t < now - 60, so a
\* timestamp exactly 60 seconds old is retained.
C10_DiscardsOnlyOlderThanWindow ==
  [][\A h \in Handlers :
       pc[h] = "rate_check" /\ pc'[h] # pc[h] =>
         recent_requests'[client_ip[h]] =
           SelectSeq(Stored(client_ip[h]), LAMBDA t : ~(t < now - 60))]_vars

\* C10 as amended: a check discards exactly the timestamps t <= now - 60 (a
\* timestamp exactly 60 seconds old is discarded); the timestamps newer than
\* now - 60 are retained, and the check answers over-limit iff there are 3 or
\* more of them.
C10_DiscardsAtWindowAge ==
  [][\A h \in Handlers :
       pc[h] = "rate_check" /\ pc'[h] # pc[h] =>
         /\ recent_requests'[client_ip[h]] =
              SelectSeq(Stored(client_ip[h]), LAMBDA t : ~(t <= now - 60))
         /\ pc'[h] = "done" <=> Len(recent_requests'[client_ip[h]]) >= 3]_vars

\* A check has discarded three timestamps exactly 60 seconds old and let the
\* request through.
C10_Witness ==
  \E h \in Handlers :
    /\ pc[h] = "validate"
    /\ Len(History(client_ip[h])) = 3
    /\ \A i \in 1..3 : now - History(client_ip[h])[i] = 60
    /\ Stored(client_ip[h]) = <<>>

\* The rate-limit key C11 gives a request: the first comma-separated entry of
\* the header when the header holds one, and the peer address when the header
\* is absent or empty.
ClaimedKey(xff, remote) ==
  IF xff.present /\ xff.val # <<>>
  THEN (IF HasComma(xff.val) THEN strip(first_entry(xff.val)) ELSE xff.val)
  ELSE remote.val

\* C11: the rate-limit key of a request is the first comma-separated entry of
\* its forwarded-address header when the header is present, and the peer
\* address otherwise, also when the header is present but empty.
C11_KeyIsFirstEntryOrPeer ==
  \A h \in Handlers :
    pc[h] # "idle" => client_ip[h] = ClaimedKey(req[h].xff, req[h].remote)

\* C12: a request that has ended has exactly one of the outcomes 429, 400,
\* 200 (simulated), 200 (delivered) and 500, a request that has not ended has
\* no response, and the delivery call is made at most once per request, only
\* for a request that was not over the limit, whose phone passed validation,
\* that was recorded and that runs with all credentials set.
C12_OneOutcomeOneDelivery ==
  \A h \in Handlers :
    /\ pc[h] = "done" =>
         \/ resp[h].status = 429 /\ calls[h] = 0 /\ recorded[h] = 0
         \/ resp[h].status = 400 /\ calls[h] = 0 /\ recorded[h] = 0
         \/ /\ resp[h].status = 200 /\ resp[h].text[1] = Lit("(DEV) Would send to ")
            /\ calls[h] = 0 /\ recorded[h] = 1
         \/ /\ resp[h].status = 200 /\ resp[h].text[1] = Lit("OTP sent to ")
            /\ calls[h] = 1 /\ recorded[h] = 1
         \/ resp[h].status = 500 /\ calls[h] = 1 /\ recorded[h] = 1
         \/ resp[h].status = 500 /\ resp[h].key = "" /\ calls[h] = 0 /\ recorded[h] = 0
    /\ pc[h] # "done" => resp[h].status = 0
    /\ calls[h] <= 1
    /\ calls[h] = 1 =>
         /\ count_seen[h] \in 0..2
         /\ NumDigits(phone[h]) \in 8..15
         /\ recorded[h] = 1
         /\ env.sid /\ env.token /\ env.number

\* A request ended 500 after its single delivery call raised.
C12_Witness ==
  \E h \in Handlers :
    /\ pc[h] = "done" /\ resp[h].status = 500 /\ resp[h].key = "error"
    /\ calls[h] = 1 /\ recorded[h] = 1 /\ count_seen[h] = 2

\* Some four timestamps recorded for ip lie less than 60 seconds apart.
FourInWindow(ip) ==
  \E i \in 1..Len(History(ip)) :
    i + 3 <= Len(History(ip)) /\ History(ip)[i + 3] - History(ip)[i] < 60

\* C13: when handlers of one address interleave between the over-limit check
\* and the record step, more than 3 requests of the address are admitted within
\* one 60-second window; without a request arriving while another is being
\* handled this does not happen.
C13_BoundNeedsSerialHandling ==
  \A ip \in DOMAIN admitted : FourInWindow(ip) => overlap

\* Four requests of one address have been admitted within one window.
C13_Witness ==
  \E ip \in DOMAIN admitted :
    /\ FourInWindow(ip)
    /\ \A h \in Handlers : pc[h] = "done" /\ resp[h].status = 200

\* Number of occurrences of t in the sequence lst.
Count(lst, t) == Cardinality({i \in 1..Len(lst) : lst[i] = t})

\* A timestamp recorded for ip that no pruning can have removed yet (it is
\* younger than the window now) is missing from the stored list of ip.
Lost(ip) ==
  \E i \in 1..Len(History(ip)) :
    /\ now - History(ip)[i] < 60
    /\ Count(Stored(ip), History(ip)[i]) < Count(History(ip), History(ip)[i])

\* C18: when the append of one handler's record_request interleaves with the
\* read-filter-write of another handler's clean_old for the same address, the
\* timestamp of an admitted request is absent from the stored list although it
\* is inside the window; without a request arriving while another is being
\* handled no recorded timestamp inside the window is absent.
C18_LostUpdateNeedsInterleaving ==
  \A ip \in DOMAIN admitted : Lost(ip) => overlap

\* Two requests were admitted and answered, and the stored list holds the
\* timestamp of one of them only.
C18_Witness ==
  \E ip \in DOMAIN admitted :
    /\ Lost(ip)
    /\ \A h \in Handlers : pc[h] = "done" /\ recorded[h] = 1 /\ client_ip[h] = ip
    /\ Len(History(ip)) = 2 /\ Len(Stored(ip)) = 1

\* C14: under serialized handling the stored list of every address has at
\* most 3 entries, and any 4 timestamps recorded for one address span at least
\* 60 seconds.
C14_AtMostThreePerWindow ==
  /\ \A ip \in DOMAIN recent_requests : Len(recent_requests[ip]) <= 3
  /\ \A ip \in DOMAIN admitted : ~FourInWindow(ip)

\* A fourth request was admitted exactly 60 seconds after the first of three
\* and the stored list is full again.
C14_Witness ==
  \E ip \in DOMAIN admitted :
    /\ Len(History(ip)) = 4 /\ History(ip)[4] - History(ip)[1] = 60
    /\ Len(Stored(ip)) = 3

\* The over-limit answer of a check step of h follows from the admissions
\* recorded for h's own address alone.
DecidedByOwnAdmissions(h) ==
  pc[h] = "rate_check" /\ pc'[h] # pc[h] =>
    (resp'[h].status = 429 <=> AdmittedInWindow(client_ip[h], now) >= 3)

\* C15: the step that ends a request with 429 or 400 appends no timestamp to
\* any address: the history of admissions is unchanged, the lists of the other
\* addresses are unchanged, and the list of its own address is unchanged or
\* pruned.  Every over-limit answer is decided by the admitted timestamps
\* still inside the window, so rejected requests neither block a later request
\* nor prolong a block.
C15_RejectedConsumeNoQuota ==
  [][\A h \in Handlers :
       /\ pc[h] # "done" /\ pc'[h] = "done" /\ resp'[h].status \in {429, 400} =>
            /\ admitted' = admitted
            /\ recorded'[h] = 0
            /\ DOMAIN recent_requests' = DOMAIN recent_requests \cup {client_ip[h]}
            /\ \A k \in DOMAIN recent_requests :
                 k # client_ip[h] => recent_requests'[k] = recent_requests[k]
            /\ \/ recent_requests'[client_ip[h]] = Stored(client_ip[h])
               \/ recent_requests'[client_ip[h]] =
                    SelectSeq(Stored(client_ip[h]), LAMBDA t : now - t < 60)
       /\ DecidedByOwnAdmissions(h)]_vars

\* A second request in a row was turned away and the three admissions of its
\* address are all that is stored.
C15_Witness ==
  \E h \in Handlers :
    /\ pc[h] = "done" /\ resp[h].status = 429 /\ nreq = 5
    /\ DOMAIN admitted = {client_ip[h]}
    /\ Len(History(client_ip[h])) = 3 /\ Len(Stored(client_ip[h])) = 3

\* C16: a step of the handler of a request whose address is A leaves the
\* stored list and the recorded admissions of every other address B as they
\* were, and the answer of a check is decided by the admissions of the
\* request's own address.
C16_OtherAddressesUntouched ==
  [][/\ \A k \in DOMAIN recent_requests :
          (\A h \in Handlers : pc'[h] # pc[h] => client_ip'[h] # k) =>
            /\ k \in DOMAIN recent_requests'
            /\ recent_requests'[k] = recent_requests[k]
            /\ History(k) = (IF k \in DOMAIN admitted' THEN admitted'[k] ELSE <<>>)
     /\ \A h \in Handlers : DecidedByOwnAdmissions(h)]_vars

\* A request of one address is admitted while another address is over the limit.
C16_Witness ==
  \E h \in Handlers, k \in DOMAIN recent_requests :
    /\ k # client_ip[h]
    /\ AdmittedInWindow(k, now) = 3 /\ Len(recent_requests[k]) = 3
    /\ pc[h] = "done" /\ recorded[h] = 1 /\ count_seen[h] = 0

\* The phone string of body b (empty unless it is a string).
RawPhone(b) == IF b.kind = "str" THEN b.phone ELSE <<>>

\* C17: a validated request gets the missing-number error iff its phone holds
\* no digit and no plus sign; a phone that holds a digit or a plus sign and
\* fewer than 8 digits, a string of plus signs included, gets the
\* invalid-format error.
C17_MissingIffNothingKept ==
  \A h \in Handlers :
    Validated(h) /\ body[h].kind # "nonstr" =>
      LET raw == RawPhone(body[h])
          kept == {i \in 1..Len(raw) : raw[i] \in {"0", "7", "+"}}
      IN /\ resp[h] = Resp400Missing <=> kept = {}
         /\ kept # {} /\ NumDigits(raw) < 8 => resp[h] = Resp400Invalid

\* A phone made of plus signs only is answered with the invalid-format error.
C17_Witness ==
  \E h \in Handlers :
    /\ body[h].kind = "str" /\ body[h].phone = <<"+", "+">>
    /\ pc[h] = "done" /\ resp[h] = Resp400Invalid

\* C19: the set of tracked addresses changes only by gaining the address of a
\* request at its rate check (whatever the request's later outcome); no
\* address is ever removed, also not when its list has become empty.
C19_TrackedAddressesOnlyGrow ==
  [][DOMAIN recent_requests' =
       DOMAIN recent_requests \cup
         {client_ip[h] : h \in {g \in Handlers : pc[g] = "rate_check" /\ pc'[g] # pc[g]}}]_vars

\* One address is tracked with all its timestamps pruned, another was created
\* by a request that recorded nothing.
C19_Witness ==
  \E a \in DOMAIN recent_requests, b \in DOMAIN recent_requests :
    /\ a # b
    /\ recent_requests[a] = <<>> /\ History(a) # <<>>
    /\ History(b) = <<>>
    /\ \E h \in Handlers : pc[h] = "done" /\ client_ip[h] = b /\ resp[h].status = 400
====
